---- MODULE Spec2Model ----
(***************************************************************************)
(* A model of the IBF-vs-ICP comparison program (src/App_per.py) and of    *)
(* the email export of src/streamlit_email_generator.py.                   *)
(*                                                                         *)
(* Strings are sequences of one-character strings, so that strip, rstrip,  *)
(* replace, lower, the tokenizer and the marker search are computed on the *)
(* characters as the code computes them.  Similarity scores are fixed      *)
(* point numbers in thousandths (1.0 is 1000): the program displays them   *)
(* with round(score, 3).                                                   *)
(***************************************************************************)
EXTENDS Integers, Sequences, FiniteSets, TLC

VARIABLES
    sim_a,        \* text_similarity: argument a of the call
    sim_b,        \* text_similarity: argument b of the call
    sim_out,      \* text_similarity: outcome of the call, or NotCalled
    walker,       \* table walk: the parser whose row loop runs ("pdf" or "docx")
    rows,         \* table walk: the rows walked so far, in walk order
    kv_map,       \* table walk: the parser's kv_map after those rows
    pdf_file,     \* main: the uploaded Issue Briefing Form, or NoFile
    docx_file,    \* main: the uploaded Issue Closure Pack, or NoFile
    threshold,    \* main: the slider's match threshold, in thousandths
    f1,           \* main: the Field Record parsed from the PDF, or NoRecord
    f2,           \* main: the Field Record parsed from the DOCX, or NoRecord
    scores,       \* main: compute_similarity's result, or NoRecord
    sim_rows,     \* main: the rows of the similarity table, or NoRecord
    error,        \* main: the exception that ended the run, or NoError
    df_clean,     \* email export: the cleaned roster, a sequence of rows
    template_name,\* email export: the selected template
    temp_dir,     \* email export: the files written during the call
    created_files,\* email export: the file names collected for the ZIP
    zip_content,  \* email export: the call's return value, or NotExported
    st_error      \* email export: the exception reported by st.error

scorerVars == <<sim_a, sim_b, sim_out>>

walkerVars == <<walker, rows, kv_map>>

appVars == <<pdf_file, docx_file, threshold, f1, f2, scores, sim_rows, error>>

emailVars == <<df_clean, template_name, temp_dir, created_files, zip_content,
               st_error>>

vars == <<sim_a, sim_b, sim_out, walker, rows, kv_map,
          pdf_file, docx_file, threshold, f1, f2, scores, sim_rows, error,
          df_clean, template_name, temp_dir, created_files, zip_content, st_error>>

-----------------------------------------------------------------------------
(* Characters and Python's str methods                                      *)

Range(s) == {s[i] : i \in 1..Len(s)}

\* Characters str.strip(), str.split() and the regex \s treat as whitespace.
WhitespaceChars == {" ", "\n", "\t"}

IsSpace(c) == c \in WhitespaceChars

\* str.lower() on one character: the lower-case letter of each upper-case one.
LowerOf ==
    ("A" :> "a") @@ ("B" :> "b") @@ ("C" :> "c") @@ ("D" :> "d") @@
    ("E" :> "e") @@ ("F" :> "f") @@ ("G" :> "g") @@ ("H" :> "h") @@
    ("I" :> "i") @@ ("J" :> "j") @@ ("K" :> "k") @@ ("L" :> "l") @@
    ("M" :> "m") @@ ("N" :> "n") @@ ("O" :> "o") @@ ("P" :> "p") @@
    ("Q" :> "q") @@ ("R" :> "r") @@ ("S" :> "s") @@ ("T" :> "t") @@
    ("U" :> "u") @@ ("V" :> "v") @@ ("W" :> "w") @@ ("X" :> "x") @@
    ("Y" :> "y") @@ ("Z" :> "z")

Lower(c) == IF c \in DOMAIN LowerOf THEN LowerOf[c] ELSE c

LowerLetters ==
    {"a", "b", "c", "d", "e", "f", "g", "h", "i", "j", "k", "l", "m",
     "n", "o", "p", "q", "r", "s", "t", "u", "v", "w", "x", "y", "z"}

Digits == {"0", "1", "2", "3", "4", "5", "6", "7", "8", "9"}

\* The regex class \w: letters, digits and the underscore.
WordChars == LowerLetters \cup DOMAIN LowerOf \cup Digits \cup {"_"}

IsWordChar(c) == c \in WordChars

\* str.lower()
LowerStr(s) == <<>> \o [i \in 1..Len(s) |-> Lower(s[i])]

\* str.lstrip(chars), str.rstrip(chars) and str.strip() for whitespace.
RECURSIVE LStripChars(_, _)
LStripChars(s, chars) ==
    IF s # <<>> /\ Head(s) \in chars THEN LStripChars(Tail(s), chars) ELSE s

RECURSIVE RStripChars(_, _)
RStripChars(s, chars) ==
    IF s # <<>> /\ s[Len(s)] \in chars
    THEN RStripChars(SubSeq(s, 1, Len(s) - 1), chars)
    ELSE s

Strip(s) == RStripChars(LStripChars(s, WhitespaceChars), WhitespaceChars)

\* str.replace(old, new) for one-character old and new.
ReplaceChar(s, old, new) ==
    <<>> \o [i \in 1..Len(s) |-> IF s[i] = old THEN new ELSE s[i]]

\* The elements of a set of indices, in increasing order.
SortedSeq(K) ==
    <<>> \o [j \in 1..Cardinality(K) |->
                CHOOSE i \in K : Cardinality({k \in K : k <= i}) = j]

\* The string trimmed only, its inner whitespace kept.
JoinSplit_StripOnly(s) == Strip(s)

\* " ".join(s.split()): whitespace runs collapsed to one space, ends trimmed.
\* Of the trimmed string every character is kept but the whitespace that
\* another whitespace follows; a kept whitespace becomes a space.
JoinSplit(s) ==
    LET t == Strip(s)
        idx == SortedSeq({i \in 1..Len(t) : ~IsSpace(t[i]) \/ ~IsSpace(t[i + 1])})
    IN  <<>> \o [j \in 1..Len(idx) |-> IF IsSpace(t[idx[j]]) THEN " " ELSE t[idx[j]]]

\* A dict as a function: d[k] = v, and d.get(k, default).  (Sequences and
\* dicts are built with \o and @@, which make TLC compute them once.)
EmptyDict == <<>>

Put(d, k, v) == (k :> v) @@ d

Get(d, k, default) == IF k \in DOMAIN d THEN d[k] ELSE default

-----------------------------------------------------------------------------
(* text_similarity: TfidfVectorizer().fit([a, b]) and cosine_similarity     *)

\* The index just past the maximal run of word characters that starts at i.
RECURSIVE WordRunEnd(_, _)
WordRunEnd(s, i) ==
    IF i <= Len(s) /\ IsWordChar(s[i]) THEN WordRunEnd(s, i + 1) ELSE i

\* token_pattern (?u)\b\w\w+\b : the maximal runs of two or more word
\* characters, in order; a run of one character is no token.
Tokens(s) ==
    LET starts == {i \in 1..Len(s) :
                      /\ IsWordChar(s[i])
                      /\ i = 1 \/ ~IsWordChar(s[i - 1])
                      /\ WordRunEnd(s, i) - i >= 2}
        idx == SortedSeq(starts)
    IN  <<>> \o [j \in 1..Len(idx) |-> SubSeq(s, idx[j], WordRunEnd(s, idx[j]) - 1)]

\* The vectorizer's analyzer: lowercase, then tokenize.
Analyze(s) == Tokens(LowerStr(s))

\* Term frequency of token t in the token list toks.
TermCount(t, toks) == Cardinality({i \in 1..Len(toks) : toks[i] = t})

RECURSIVE SumOver(_, _)
SumOver(S, f) ==
    IF S = {} THEN 0
    ELSE LET x == CHOOSE y \in S : TRUE
         IN  f[x] + SumOver(S \ {x}, f)

\* Scores are counted in thousandths.
Permille == 1000

\* idf(t)^2 in thousandths, smooth_idf over the two-document corpus:
\* idf = ln((1 + 2) / (1 + df)) + 1, which is 1 when both documents hold
\* the term and 1.405465 (squared: 1.975332) when one does.
IdfSq(df) == IF df = 2 THEN Permille ELSE 1975

\* The largest r with r * r <= x, by bisection over lo..hi.
RECURSIVE ISqrtIn(_, _, _)
ISqrtIn(x, lo, hi) ==
    IF lo >= hi THEN lo
    ELSE LET mid == (lo + hi + 1) \div 2
         IN  IF mid * mid <= x THEN ISqrtIn(x, mid, hi)
             ELSE ISqrtIn(x, lo, mid - 1)

ISqrt(x) == ISqrtIn(x, 0, 46340)

\* cosine_similarity of the two tf-idf rows, in thousandths.  A row with no
\* term of the vocabulary is the zero vector, whose cosine with anything is 0.
Cosine(ta, tb, vocab) ==
    LET df   == [t \in vocab |->
                    (IF TermCount(t, ta) > 0 THEN 1 ELSE 0)
                  + (IF TermCount(t, tb) > 0 THEN 1 ELSE 0)]
        dot  == SumOver(vocab, [t \in vocab |->
                    TermCount(t, ta) * TermCount(t, tb)])
        na   == SumOver(vocab, [t \in vocab |->
                    TermCount(t, ta) * TermCount(t, ta) * IdfSq(df[t])])
        nb   == SumOver(vocab, [t \in vocab |->
                    TermCount(t, tb) * TermCount(t, tb) * IdfSq(df[t])])
    IN  IF na = 0 \/ nb = 0 THEN 0
        ELSE (dot * Permille * Permille) \div ISqrt(na * nb)

\* A call's outcome: a returned value, or a raised exception.
Returned(v) == [raised |-> FALSE, value |-> v]

Raised(e) == [raised |-> TRUE, exc |-> e]

\* text_similarity with the emptiness guard requiring both arguments empty.
text_similarity_BothEmpty(a, b) ==
    IF a = <<>> /\ b = <<>> THEN Returned(0)
    ELSE LET ta == Analyze(a)
             tb == Analyze(b)
             vocab == Range(ta) \cup Range(tb)
         IN  IF vocab = {} THEN Raised("ValueError")
             ELSE Returned(Cosine(ta, tb, vocab))

\* text_similarity(a, b).  fit() raises ValueError("empty vocabulary ...")
\* when neither document holds a token.
text_similarity(a, b) ==
    IF a = <<>> \/ b = <<>> THEN Returned(0)
    ELSE LET ta == Analyze(a)
             tb == Analyze(b)
             vocab == Range(ta) \cup Range(tb)
         IN  IF vocab = {} THEN Raised("ValueError")
             ELSE Returned(Cosine(ta, tb, vocab))

-----------------------------------------------------------------------------
(* The table walk of the two parsers                                        *)

\* A PDF table cell pdfplumber could not read: Python's None.  No string is
\* equal to it, since a string's elements are single characters.
None == <<"None">>

\* parse_issue_briefing_pdf_from_file: the cells of a row, cleaned.
PdfCleanRow(row) ==
    [j \in 1..Len(row) |->
        IF row[j] = None \/ row[j] = <<>> THEN <<>>
        ELSE ReplaceChar(Strip(row[j]), "\n", " ")]

\* PdfWalkCells keeping the first value stored under a key.
RECURSIVE PdfWalkCells_FirstWins(_, _, _)
PdfWalkCells_FirstWins(kv, cells, i) ==
    IF i < Len(cells) - 1
    THEN LET key == Strip(RStripChars(cells[i + 1], {":"}))
             value == Strip(cells[i + 2])
         IN  PdfWalkCells_FirstWins(
                 IF key # <<>> /\ key \notin DOMAIN kv THEN Put(kv, key, value) ELSE kv,
                 cells, i + 2)
    ELSE kv

\* PdfWalkCells advancing by one cell, so that pairs overlap.
RECURSIVE PdfWalkCells_StepOne(_, _, _)
PdfWalkCells_StepOne(kv, cells, i) ==
    IF i < Len(cells) - 1
    THEN LET key == Strip(RStripChars(cells[i + 1], {":"}))
             value == Strip(cells[i + 2])
         IN  PdfWalkCells_StepOne(
                 IF key # <<>> THEN Put(kv, key, value) ELSE kv,
                 cells, i + 1)
    ELSE kv

\* PdfWalkCells without the rstrip(":") of the key.
RECURSIVE PdfWalkCells_KeepColon(_, _, _)
PdfWalkCells_KeepColon(kv, cells, i) ==
    IF i < Len(cells) - 1
    THEN LET key == Strip(cells[i + 1])
             value == Strip(cells[i + 2])
         IN  PdfWalkCells_KeepColon(
                 IF key # <<>> THEN Put(kv, key, value) ELSE kv,
                 cells, i + 2)
    ELSE kv

\* parse_issue_briefing_pdf_from_file: the while loop over one row's cells.
\* i is the code's 0-based index: the code's cells[i] is cells[i + 1] here.
RECURSIVE PdfWalkCells(_, _, _)
PdfWalkCells(kv, cells, i) ==
    IF i < Len(cells) - 1
    THEN LET key == Strip(RStripChars(cells[i + 1], {":"}))
             value == Strip(cells[i + 2])
         IN  PdfWalkCells(
                 IF key # <<>> THEN Put(kv, key, value) ELSE kv,
                 cells, i + 2)
    ELSE kv

PdfWalkRow(kv, row) == PdfWalkCells(kv, PdfCleanRow(row), 0)

\* parse_icp_docx_from_file: the cells of a row, stripped.
DocxCleanRow(row) == [j \in 1..Len(row) |-> Strip(row[j])]

\* parse_icp_docx_from_file: the while loop over one row's cells.
RECURSIVE DocxWalkCells(_, _, _)
DocxWalkCells(kv, cells, i) ==
    IF i < Len(cells) - 1
    THEN LET key == RStripChars(cells[i + 1], {":"})
             value == cells[i + 2]
         IN  DocxWalkCells(
                 IF key # <<>> /\ value # <<>>
                 THEN Put(kv, Strip(key), Strip(value)) ELSE kv,
                 cells, i + 2)
    ELSE kv

DocxWalkRow(kv, row) == DocxWalkCells(kv, DocxCleanRow(row), 0)

\* The labels the parsers look up.
KeyTitle == <<"T", "i", "t", "l", "e">>

KeyIssueID == <<"I", "s", "s", "u", "e", " ", "I", "D">>

KeyIssueNewlineID == <<"I", "s", "s", "u", "e", "\n", "I", "D">>

KeyIssueTitle == <<"I", "s", "s", "u", "e", " ", "T", "i", "t", "l", "e">>

KeySourceSystemIssueReference ==
    <<"S", "o", "u", "r", "c", "e", " ", "S", "y", "s", "t", "e", "m", " ", "I", "s", "s", "u", "e", " ", "R", "e", "f", "e", "r", "e", "n", "c", "e">>

\* parse_issue_briefing_pdf_from_file: Title and Issue ID from kv_map.
PdfTitle(kv) == Get(kv, KeyTitle, <<>>)

PdfIssueID(kv) == Get(kv, KeyIssueID, Get(kv, KeyIssueNewlineID, <<>>))

\* parse_icp_docx_from_file: Title and Issue ID from kv_map.
DocxTitle(kv) == Get(kv, KeyIssueTitle, <<>>)

DocxIssueID(kv) == Get(kv, KeySourceSystemIssueReference, <<>>)

-----------------------------------------------------------------------------
(* re.search(opener \s* (.+?) closer, flags=re.DOTALL)                      *)

\* Whether pat occurs in text at index i.
MatchAt(text, pat, i) ==
    /\ i >= 1
    /\ i + Len(pat) - 1 <= Len(text)
    /\ pat = <<>> \/ text[i] = pat[1]
    /\ SubSeq(text, i, i + Len(pat) - 1) = pat

\* The first index >= i at which pat occurs in text, or 0.
FindFrom(text, pat, i) ==
    LET at == {c \in i..(Len(text) - Len(pat) + 1) : MatchAt(text, pat, c)}
    IN  IF at = {} THEN 0 ELSE CHOOSE c \in at : \A d \in at : c <= d

\* The length of the whitespace run that starts at index i.
RECURSIVE WhitespaceRun(_, _)
WhitespaceRun(text, i) ==
    IF i <= Len(text) /\ IsSpace(text[i]) THEN 1 + WhitespaceRun(text, i + 1) ELSE 0

\* The opener ends just before index q.  The greedy \s takes u whitespace
\* characters, the most first and never fewer than minWs; the lazy group
\* (.+?) takes at least one character and ends at the first occurrence of
\* the closer after it.  The group, or None when no u gives a match.
RECURSIVE GroupAfter(_, _, _, _, _)
GroupAfter(text, q, u, minWs, closer) ==
    IF u < minWs THEN None
    ELSE LET c == FindFrom(text, closer, q + u + 1)
         IN  IF c # 0 THEN SubSeq(text, q + u, c - 1)
             ELSE GroupAfter(text, q, u - 1, minWs, closer)

\* The group of the match at the opener's occurrence at index p, or None.
GroupAt(text, opener, minWs, closer, p) ==
    LET q == p + Len(opener)
    IN  GroupAfter(text, q, WhitespaceRun(text, q), minWs, closer)

\* re.search(...).group(1): the group of the leftmost match, or None when
\* the pattern matches nowhere.
SearchGroup(text, opener, minWs, closer) ==
    LET at == {p \in 1..Len(text) :
                  /\ MatchAt(text, opener, p)
                  /\ GroupAt(text, opener, minWs, closer, p) # None}
    IN  IF at = {} THEN None
        ELSE GroupAt(text, opener, minWs, closer, CHOOSE p \in at : \A d \in at : p <= d)

\* sep.join(parts)
RECURSIVE Join(_, _)
Join(parts, sep) ==
    IF parts = <<>> THEN <<>>
    ELSE IF Len(parts) = 1 THEN parts[1]
    ELSE parts[1] \o sep \o Join(Tail(parts), sep)

RECURSIVE Concat(_)
Concat(seqs) == IF seqs = <<>> THEN <<>> ELSE Head(seqs) \o Concat(Tail(seqs))

-----------------------------------------------------------------------------
(* The two parsers                                                          *)

\* The marker phrases of the span patterns.
MarkDescription == <<"D", "e", "s", "c", "r", "i", "p", "t", "i", "o", "n">>

MarkIssueImpact == <<"I", "s", "s", "u", "e", " ", "I", "m", "p", "a", "c", "t">>

MarkIssueRootCause == <<"I", "s", "s", "u", "e", " ", "R", "o", "o", "t", " ", "C", "a", "u", "s", "e">>

MarkOverallIssueRating == <<"O", "v", "e", "r", "a", "l", "l", " ", "I", "s", "s", "u", "e", " ", "R", "a", "t", "i", "n", "g">>

MarkIssueDescriptionC == <<"I", "s", "s", "u", "e", " ", "D", "e", "s", "c", "r", "i", "p", "t", "i", "o", "n", ":">>

MarkIssueRootCauseC == <<"I", "s", "s", "u", "e", " ", "R", "o", "o", "t", " ", "C", "a", "u", "s", "e", ":">>

MarkIssueImpactC == <<"I", "s", "s", "u", "e", " ", "I", "m", "p", "a", "c", "t", ":">>

MarkBackgroundContextC == <<"B", "a", "c", "k", "g", "r", "o", "u", "n", "d", " ", "C", "o", "n", "t", "e", "x", "t", ":">>

MarkSectionCC == <<"S", "e", "c", "t", "i", "o", "n", " ", "C", ":">>

FieldKeys == {"Title", "Issue ID", "Description", "Issue Impact", "Issue Root Cause"}

\* The fields dict without its default entries.
NoFields == EmptyDict

\* The fields dict both parsers start from: every key, each "".
DefaultFields == [k \in FieldKeys |-> <<>>]

\* if m: fields[key] = " ".join(m.group(1).split())
PutSpan(fields, key, group) ==
    IF group # None THEN Put(fields, key, JoinSplit(group)) ELSE fields

\* A PDF is a sequence of pages, each with its tables (extract_tables) and
\* its plain text (extract_text, None when the page has none).
PdfAllRows(pages) == Concat([i \in 1..Len(pages) |-> Concat(pages[i].tables)])

RECURSIVE PdfWalkRows(_, _)
PdfWalkRows(kv, rs) ==
    IF rs = <<>> THEN kv ELSE PdfWalkRows(PdfWalkRow(kv, Head(rs)), Tail(rs))

RECURSIVE PdfTextParts(_)
PdfTextParts(pages) ==
    IF pages = <<>> THEN <<>>
    ELSE (IF Head(pages).text # None /\ Head(pages).text # <<>>
          THEN <<Head(pages).text>> ELSE <<>>)
         \o PdfTextParts(Tail(pages))

\* The label phrases of the PDF, and a label alone on its line at index p.
LabelPhrases == {MarkDescription, MarkIssueImpact, MarkIssueRootCause}

IsolatedAt(text, label, p) ==
    /\ MatchAt(text, label, p)
    /\ p = 1 \/ text[p - 1] = "\n"
    /\ p + Len(label) > Len(text) \/ text[p + Len(label)] = "\n"

\* The combined text with every line deleted that holds a label phrase and
\* nothing else.
PdfCombined_DropsLabelLines(pages) ==
    LET text == Join(PdfTextParts(pages), <<"\n">>)
        dropped == {i \in 1..Len(text) :
                       \E label \in LabelPhrases :
                           \E p \in (i - Len(label))..i :
                               p >= 1 /\ IsolatedAt(text, label, p)}
        idx == SortedSeq((1..Len(text)) \ dropped)
    IN  <<>> \o [j \in 1..Len(idx) |-> text[idx[j]]]

PdfCombined(pages) == Join(PdfTextParts(pages), <<"\n">>)

\* The PDF parser giving up at the first span pattern that does not match.
parse_issue_briefing_pdf_from_file_StopsAtFirstMiss(pages) ==
    LET kv == PdfWalkRows(EmptyDict, PdfAllRows(pages))
        combined == PdfCombined(pages)
        t1 == Put(DefaultFields, "Title", PdfTitle(kv))
        t2 == Put(t1, "Issue ID", PdfIssueID(kv))
        desc == SearchGroup(combined, MarkDescription, 1, MarkIssueImpact)
        impact == SearchGroup(combined, MarkIssueImpact, 1, MarkIssueRootCause)
        t3 == PutSpan(t2, "Description", desc)
        t4 == PutSpan(t3, "Issue Impact", impact)
    IN  IF desc = None THEN t2
        ELSE IF impact = None THEN t3
        ELSE PutSpan(t4, "Issue Root Cause",
                 SearchGroup(combined, MarkIssueRootCause, 1, MarkOverallIssueRating))

\* The PDF parser falling back, for a Title the key lookup did not find, to
\* the span between the Title label and the Issue ID label.
parse_issue_briefing_pdf_from_file_TitleFromSpan(pages) ==
    LET kv == PdfWalkRows(EmptyDict, PdfAllRows(pages))
        combined == PdfCombined(pages)
        span == SearchGroup(combined, KeyTitle, 1, KeyIssueID)
        t1 == Put(DefaultFields, "Title",
                  IF PdfTitle(kv) # <<>> \/ span = None
                  THEN PdfTitle(kv) ELSE JoinSplit(span))
        t2 == Put(t1, "Issue ID", PdfIssueID(kv))
        t3 == PutSpan(t2, "Description",
                  SearchGroup(combined, MarkDescription, 1, MarkIssueImpact))
        t4 == PutSpan(t3, "Issue Impact",
                  SearchGroup(combined, MarkIssueImpact, 1, MarkIssueRootCause))
    IN  PutSpan(t4, "Issue Root Cause",
            SearchGroup(combined, MarkIssueRootCause, 1, MarkOverallIssueRating))

\* parse_issue_briefing_pdf_from_file on a readable PDF.
parse_issue_briefing_pdf_from_file(pages) ==
    LET kv == PdfWalkRows(EmptyDict, PdfAllRows(pages))
        combined == PdfCombined(pages)
        t1 == Put(DefaultFields, "Title", PdfTitle(kv))
        t2 == Put(t1, "Issue ID", PdfIssueID(kv))
        t3 == PutSpan(t2, "Description",
                  SearchGroup(combined, MarkDescription, 1, MarkIssueImpact))
        t4 == PutSpan(t3, "Issue Impact",
                  SearchGroup(combined, MarkIssueImpact, 1, MarkIssueRootCause))
    IN  PutSpan(t4, "Issue Root Cause",
            SearchGroup(combined, MarkIssueRootCause, 1, MarkOverallIssueRating))

\* A DOCX has its paragraphs' texts and its tables (rows of cell texts).
DocxAllRows(tables) == Concat(tables)

RECURSIVE DocxWalkRows(_, _)
DocxWalkRows(kv, rs) ==
    IF rs = <<>> THEN kv ELSE DocxWalkRows(DocxWalkRow(kv, Head(rs)), Tail(rs))

DocxCombined(doc) ==
    Join(doc.paragraphs, <<"\n">>) \o <<"\n">>
    \o Join(Concat(DocxAllRows(doc.tables)), <<"\n">>)

\* The first identifier token of a text in document order: the literal
\* prefix ISSUE- followed by a run of identifier characters; None when the
\* text holds no such token.
IdPrefix == <<"I", "S", "S", "U", "E", "-">>

RECURSIVE WordRun(_, _)
WordRun(text, i) ==
    IF i <= Len(text) /\ IsWordChar(text[i]) THEN 1 + WordRun(text, i + 1) ELSE 0

FirstIdToken(text) ==
    LET at == {p \in 1..Len(text) :
                  MatchAt(text, IdPrefix, p) /\ WordRun(text, p + Len(IdPrefix)) > 0}
    IN  IF at = {} THEN None
        ELSE LET p == CHOOSE q \in at : \A d \in at : q <= d
             IN  SubSeq(text, p, p + Len(IdPrefix) + WordRun(text, p + Len(IdPrefix)) - 1)

\* The DOCX parser taking the Issue ID from the first identifier token of
\* the text when there is one.
parse_icp_docx_from_file_ScansIdToken(doc) ==
    LET kv == DocxWalkRows(EmptyDict, DocxAllRows(doc.tables))
        combined == DocxCombined(doc)
        token == FirstIdToken(combined)
        t1 == Put(DefaultFields, "Title", DocxTitle(kv))
        t2 == Put(t1, "Issue ID", IF token # None THEN token ELSE DocxIssueID(kv))
        t3 == PutSpan(t2, "Description",
                  SearchGroup(combined, MarkIssueDescriptionC, 0, MarkIssueRootCauseC))
        t4 == PutSpan(t3, "Issue Root Cause",
                  SearchGroup(combined, MarkIssueRootCauseC, 0, MarkIssueImpactC))
        impact == SearchGroup(combined, MarkIssueImpactC, 0, MarkBackgroundContextC)
    IN  IF impact # None THEN PutSpan(t4, "Issue Impact", impact)
        ELSE PutSpan(t4, "Issue Impact",
                 SearchGroup(combined, MarkIssueImpactC, 0, MarkSectionCC))

\* parse_icp_docx_from_file on a readable DOCX.
parse_icp_docx_from_file(doc) ==
    LET kv == DocxWalkRows(EmptyDict, DocxAllRows(doc.tables))
        combined == DocxCombined(doc)
        t1 == Put(DefaultFields, "Title", DocxTitle(kv))
        t2 == Put(t1, "Issue ID", DocxIssueID(kv))
        t3 == PutSpan(t2, "Description",
                  SearchGroup(combined, MarkIssueDescriptionC, 0, MarkIssueRootCauseC))
        t4 == PutSpan(t3, "Issue Root Cause",
                  SearchGroup(combined, MarkIssueRootCauseC, 0, MarkIssueImpactC))
        impact == SearchGroup(combined, MarkIssueImpactC, 0, MarkBackgroundContextC)
    IN  IF impact # None THEN PutSpan(t4, "Issue Impact", impact)
        ELSE PutSpan(t4, "Issue Impact",
                 SearchGroup(combined, MarkIssueImpactC, 0, MarkSectionCC))

-----------------------------------------------------------------------------
(* compute_similarity, to_match_label and main                              *)

\* scores["Issue ID"]
IssueIDScore_ViaTextSimilarity(r1, r2) ==
    LET t == text_similarity(Get(r1, "Issue ID", <<>>), Get(r2, "Issue ID", <<>>))
    IN  IF t.raised THEN 0 ELSE t.value

IssueIDScore(r1, r2) ==
    IF Get(r1, "Issue ID", None) = Get(r2, "Issue ID", None) THEN Permille ELSE 0

TextFields == {"Title", "Description", "Issue Root Cause", "Issue Impact"}

\* The mean with the Overall entry counted in the divisor.
Mean_CountsOverall(sc) == SumOver(DOMAIN sc, sc) \div (Cardinality(DOMAIN sc) + 1)

\* sum(scores.values()) / len(scores), in thousandths.
Mean(sc) == SumOver(DOMAIN sc, sc) \div Cardinality(DOMAIN sc)

\* compute_similarity(f1, f2): the scores dict, or the ValueError that a
\* text_similarity call raised.
compute_similarity(r1, r2) ==
    LET sims == [k \in TextFields |->
                    text_similarity(Get(r1, k, <<>>), Get(r2, k, <<>>))]
    IN  IF \E k \in TextFields : sims[k].raised THEN Raised("ValueError")
        ELSE LET five == [k \in FieldKeys |->
                             IF k = "Issue ID" THEN IssueIDScore(r1, r2)
                             ELSE sims[k].value]
             IN  Returned(Put(five, "Overall", Mean(five)))

\* to_match_label with a strict comparison.
to_match_label_Strict(score, t) == IF score > t THEN "Match" ELSE "Mismatch"

to_match_label(score, t) == IF score >= t THEN "Match" ELSE "Mismatch"

\* The slider of main, in thousandths.
SliderMin == 0

SliderMax == 1000

SliderDefault == 800

SliderStep == 50

SliderValues ==
    {SliderMin + k * SliderStep : k \in 0..((SliderMax - SliderMin) \div SliderStep)}

\* The threshold Issue ID is labelled against.
IssueIDThreshold == 1000

\* The threshold of a field's row: "threshold if field != 'Issue ID' else 1.0".
RowThreshold(field, t) == IF field # "Issue ID" THEN t ELSE IssueIDThreshold

SimRowFields == <<"Issue ID", "Title", "Description", "Issue Root Cause", "Issue Impact">>

\* The rows of the similarity table: the five fields, then Overall.
SimRows(sc, t) ==
    [i \in 1..Len(SimRowFields) |->
        [Field |-> SimRowFields[i],
         Score |-> sc[SimRowFields[i]],
         Result |-> to_match_label(sc[SimRowFields[i]], RowThreshold(SimRowFields[i], t))]]
    \o << [Field |-> "Overall",
           Score |-> sc["Overall"],
           Result |-> to_match_label(sc["Overall"], t)] >>

\* An upload slot that holds no file; a file pdfplumber or python-docx cannot
\* open.
NoFile == [kind |-> "none"]

Malformed == [kind |-> "malformed"]

NoRecord == EmptyDict

NoError == "none"

\* The documents uploaded in the model.
TitleLoginBug == <<"L", "o", "g", "i", "n", " ", "b", "u", "g">>

TitleX == <<"X">>

IdIssue1 == <<"I", "S", "S", "U", "E", "-", "1">>

IdIssue2 == <<"I", "S", "S", "U", "E", "-", "2">>

PdfTextOrdersLost ==
    <<"D", "e", "s", "c", "r", "i", "p", "t", "i", "o", "n", "\n", "L",
      "o", "g", "i", "n", " ", "f", "a", "i", "l", "s", "\n", "I", "s",
      "s", "u", "e", " ", "I", "m", "p", "a", "c", "t", "\n", "O", "r",
      "d", "e", "r", "s", " ", "l", "o", "s", "t", "\n", "I", "s", "s",
      "u", "e", " ", "R", "o", "o", "t", " ", "C", "a", "u", "s", "e",
      "\n", "B", "a", "d", " ", "c", "o", "n", "f", "i", "g", "\n", "O",
      "v", "e", "r", "a", "l", "l", " ", "I", "s", "s", "u", "e", " ", "R",
      "a", "t", "i", "n", "g">>

\* An Issue Briefing Form: one page with one table of one row, and the
\* page's plain text.
PdfFile(title, id, text) ==
    [kind |-> "pdf",
     pages |-> << [tables |-> << << <<KeyTitle, title, KeyIssueID, id>> >> >>,
                   text |-> text] >>]

\* A PDF of one page with neither a table nor any text.
PdfBlank == [kind |-> "pdf", pages |-> << [tables |-> <<>>, text |-> None] >>]

PdfFiles ==
    {PdfFile(t, i, x) : t \in {TitleLoginBug, TitleX}, i \in {IdIssue1, None},
                        x \in {PdfTextOrdersLost, None}}
    \cup {PdfBlank, Malformed}

CellDescription ==
    <<"I", "s", "s", "u", "e", " ", "D", "e", "s", "c", "r", "i", "p", "t",
      "i", "o", "n", ":", "\n", "L", "o", "g", "i", "n", " ", "f", "a",
      "i", "l", "s">>

CellRootCause ==
    <<"I", "s", "s", "u", "e", " ", "R", "o", "o", "t", " ", "C", "a", "u",
      "s", "e", ":", "\n", "B", "a", "d", " ", "c", "o", "n", "f", "i", "g">>

CellImpactOrdersLost ==
    <<"I", "s", "s", "u", "e", " ", "I", "m", "p", "a", "c", "t", ":",
      "\n", "O", "r", "d", "e", "r", "s", " ", "l", "o", "s", "t">>

CellImpactOrdersDelayed ==
    <<"I", "s", "s", "u", "e", " ", "I", "m", "p", "a", "c", "t", ":",
      "\n", "O", "r", "d", "e", "r", "s", " ", "d", "e", "l", "a", "y",
      "e", "d">>

CellBackgroundContext == <<"B", "a", "c", "k", "g", "r", "o", "u", "n", "d", " ", "C", "o", "n", "t", "e", "x", "t", ":", " ", "n", "o", "n", "e">>

CellSectionC == <<"S", "e", "c", "t", "i", "o", "n", " ", "C", ":", " ", "C", "l", "o", "s", "u", "r", "e">>

DocxBodyOrdersLost ==
    << <<CellDescription>>, <<CellRootCause>>, <<CellImpactOrdersLost>>,
       <<CellBackgroundContext>> >>

DocxBodyOrdersDelayed ==
    << <<CellDescription>>, <<CellRootCause>>, <<CellImpactOrdersDelayed>>,
       <<CellSectionC>> >>

\* An Issue Closure Pack: a heading paragraph and one table, whose first row
\* holds the two label-value pairs and whose other rows are single cells.
DocxFile(title, id, body) ==
    [kind |-> "docx",
     paragraphs |-> << <<"I", "C", "P">> >>,
     tables |-> << << <<<<"I", "s", "s", "u", "e", " ", "T", "i", "t", "l", "e", ":">>, title,
                        <<"S", "o", "u", "r", "c", "e", " ", "S", "y", "s", "t", "e", "m", " ", "I", "s", "s", "u", "e", " ", "R", "e", "f", "e", "r", "e", "n", "c", "e", ":">>, id>> >>
                   \o body >>]

DocxFiles ==
    {DocxFile(t, i, b) : t \in {TitleLoginBug, TitleX},
                         i \in {IdIssue1, IdIssue2, <<>>},
                         b \in {DocxBodyOrdersLost, DocxBodyOrdersDelayed, <<>>}}
    \cup {Malformed}

-----------------------------------------------------------------------------
(* Direct calls of text_similarity                                          *)

\* Longest string of the systematic part of the scorer's inputs.
MaxStrLen == 3

ScorerAlphabet == {"a", "B", " "}

RECURSIVE StringsUpTo(_, _)
StringsUpTo(A, n) ==
    IF n = 0 THEN {<<>>}
    ELSE LET shorter == StringsUpTo(A, n - 1)
         IN  shorter \cup {Append(s, c) : s \in shorter, c \in A}

\* Longer samples: several tokens, repeated tokens, shared and unshared terms.
ScorerSamples ==
    { <<"a", "b", " ", "c", "d">>,
      <<"a", "b", " ", "a", "b", " ", "c", "d">>,
      <<"c", "d", " ", "e", "f">>,
      <<"A", "B", " ", "C", "D">>,
      <<"x", " ", "y">>,
      <<"a", "b", "!", "c", "d">> }

ScorerStrings == StringsUpTo(ScorerAlphabet, MaxStrLen) \cup ScorerSamples

NotCalled == [raised |-> FALSE, value |-> -1]

\* zip_content before export_emails_as_files has been called.
NotExported == [kind |-> "not called", files |-> <<>>]

EmailIdle ==
    /\ df_clean = <<>>
    /\ template_name = "Template 1"
    /\ temp_dir = EmptyDict
    /\ created_files = <<>>
    /\ zip_content = NotExported
    /\ st_error = NoError

WalkerIdle ==
    /\ walker = "none"
    /\ rows = <<>>
    /\ kv_map = EmptyDict

\* main before any upload.
AppIdle ==
    /\ pdf_file = NoFile
    /\ docx_file = NoFile
    /\ threshold = SliderDefault
    /\ f1 = NoRecord
    /\ f2 = NoRecord
    /\ scores = NoRecord
    /\ sim_rows = <<>>
    /\ error = NoError

InitScorer ==
    /\ sim_a \in ScorerStrings
    /\ sim_b \in ScorerStrings
    /\ sim_out = NotCalled
    /\ WalkerIdle
    /\ AppIdle
    /\ EmailIdle

CallTextSimilarity ==
    /\ sim_out = NotCalled
    /\ sim_out' = text_similarity(sim_a, sim_b)
    /\ UNCHANGED <<sim_a, sim_b>>
    /\ UNCHANGED walkerVars
    /\ UNCHANGED appVars
    /\ UNCHANGED emailVars

NextScorer == CallTextSimilarity

SpecScorer == InitScorer /\ [][NextScorer]_vars

-----------------------------------------------------------------------------
(* Runs of the table walk                                                   *)

\* Cell texts of the walked tables: a label plain, padded with a colon, in
\* lower case and broken over two lines; a value; an empty cell.
CellIssueID == <<"I", "s", "s", "u", "e", " ", "I", "D">>

CellIssueIDPadded == <<" ", "I", "s", "s", "u", "e", " ", "I", "D", " ", ":">>

CellIssueIDLower == <<"i", "s", "s", "u", "e", " ", "i", "d">>

CellIssueIDNewline == <<"I", "s", "s", "u", "e", "\n", "I", "D">>

CellFoo == <<"F", "o", "o">>

CellBar == <<"B", "a", "r">>

WalkerCells ==
    {CellIssueID, CellIssueIDPadded, CellIssueIDLower, CellIssueIDNewline,
     CellFoo, <<>>}

\* Longer rows: two pairs, and two pairs followed by an odd trailing cell.
LongRows ==
    { <<<<"I", "s", "s", "u", "e", " ", "T", "i", "t", "l", "e", ":">>, CellFoo, <<"O", "t", "h", "e", "r", ":">>, CellBar>>,
      <<<<"A", ":">>, <<"1">>, <<"B", ":">>, <<"2">>, <<"C", ":">>>>,
      <<CellIssueIDPadded, CellFoo, CellIssueIDLower, CellBar>> }

\* The rows a table may hold: every row of at most two cells, and LongRows.
RowsOver(cells) ==
    {<<>>} \cup {<<c>> : c \in cells} \cup {<<c, d>> : c \in cells, d \in cells}
    \cup LongRows

PdfRows == RowsOver(WalkerCells \cup {None})

DocxRows == RowsOver(WalkerCells)

\* Most rows walked in one run of a parser's row loop.
MaxRows == 2

ScorerIdle ==
    /\ sim_a = <<>>
    /\ sim_b = <<>>
    /\ sim_out = NotCalled

InitWalker ==
    /\ walker \in {"pdf", "docx"}
    /\ rows = <<>>
    /\ kv_map = EmptyDict
    /\ ScorerIdle
    /\ AppIdle
    /\ EmailIdle

\* One iteration of "for row in table" of parse_issue_briefing_pdf_from_file.
PdfWalkNextRow ==
    /\ walker = "pdf"
    /\ Len(rows) < MaxRows
    /\ \E row \in PdfRows :
        /\ rows' = Append(rows, row)
        /\ kv_map' = PdfWalkRow(kv_map, row)
    /\ UNCHANGED walker
    /\ UNCHANGED scorerVars
    /\ UNCHANGED appVars
    /\ UNCHANGED emailVars

\* One iteration of "for row in table.rows" of parse_icp_docx_from_file.
DocxWalkNextRow ==
    /\ walker = "docx"
    /\ Len(rows) < MaxRows
    /\ \E row \in DocxRows :
        /\ rows' = Append(rows, row)
        /\ kv_map' = DocxWalkRow(kv_map, row)
    /\ UNCHANGED walker
    /\ UNCHANGED scorerVars
    /\ UNCHANGED appVars
    /\ UNCHANGED emailVars

NextWalker == PdfWalkNextRow \/ DocxWalkNextRow

SpecWalker == InitWalker /\ [][NextWalker]_vars

-----------------------------------------------------------------------------
(* Runs of main                                                             *)

\* A script run without the Compare button pressed shows no result.
NoResults ==
    /\ f1' = NoRecord
    /\ f2' = NoRecord
    /\ scores' = NoRecord
    /\ sim_rows' = <<>>
    /\ error' = NoError

Init ==
    /\ AppIdle
    /\ ScorerIdle
    /\ WalkerIdle
    /\ EmailIdle

UploadPdf ==
    /\ \E file \in PdfFiles : pdf_file' = file
    /\ NoResults
    /\ UNCHANGED <<docx_file, threshold>>
    /\ UNCHANGED scorerVars
    /\ UNCHANGED walkerVars
    /\ UNCHANGED emailVars

UploadDocx ==
    /\ \E file \in DocxFiles : docx_file' = file
    /\ NoResults
    /\ UNCHANGED <<pdf_file, threshold>>
    /\ UNCHANGED scorerVars
    /\ UNCHANGED walkerVars
    /\ UNCHANGED emailVars

MoveSlider ==
    /\ \E t \in SliderValues : threshold' = t
    /\ NoResults
    /\ UNCHANGED <<pdf_file, docx_file>>
    /\ UNCHANGED scorerVars
    /\ UNCHANGED walkerVars
    /\ UNCHANGED emailVars

\* The run with a record of default values standing in for a file that
\* cannot be read.
Compare_SubstitutesDefaults ==
    /\ pdf_file # NoFile
    /\ docx_file # NoFile
    /\ \E r1 \in {IF pdf_file = Malformed THEN DefaultFields
                   ELSE parse_issue_briefing_pdf_from_file(pdf_file.pages)} :
       \E r2 \in {IF docx_file = Malformed THEN DefaultFields
                   ELSE parse_icp_docx_from_file(docx_file)} :
       \E out \in {compute_similarity(r1, r2)} :
           /\ f1' = r1
           /\ f2' = r2
           /\ IF out.raised
              THEN /\ error' = out.exc
                   /\ scores' = NoRecord
                   /\ sim_rows' = <<>>
              ELSE /\ error' = NoError
                   /\ scores' = out.value
                   /\ sim_rows' = SimRows(out.value, threshold)
    /\ UNCHANGED <<pdf_file, docx_file, threshold>>
    /\ UNCHANGED scorerVars
    /\ UNCHANGED walkerVars
    /\ UNCHANGED emailVars

\* "if pdf_file and docx_file and st.button('Compare')": the whole run.  The
\* texts are extracted from both files first, so an unreadable file ends the
\* run before anything is parsed; the two records are shown before the
\* scores are computed.  (r1, r2 and out are bound by \E over singleton sets,
\* which makes TLC compute each of them once.)
Compare ==
    /\ pdf_file # NoFile
    /\ docx_file # NoFile
    /\ IF pdf_file = Malformed
       THEN /\ error' = "PDFSyntaxError"
            /\ f1' = NoRecord /\ f2' = NoRecord
            /\ scores' = NoRecord /\ sim_rows' = <<>>
       ELSE IF docx_file = Malformed
       THEN /\ error' = "BadZipFile"
            /\ f1' = NoRecord /\ f2' = NoRecord
            /\ scores' = NoRecord /\ sim_rows' = <<>>
       ELSE \E r1 \in {parse_issue_briefing_pdf_from_file(pdf_file.pages)} :
            \E r2 \in {parse_icp_docx_from_file(docx_file)} :
            \E out \in {compute_similarity(r1, r2)} :
                /\ f1' = r1
                /\ f2' = r2
                /\ IF out.raised
                   THEN /\ error' = out.exc
                        /\ scores' = NoRecord
                        /\ sim_rows' = <<>>
                   ELSE /\ error' = NoError
                        /\ scores' = out.value
                        /\ sim_rows' = SimRows(out.value, threshold)
    /\ UNCHANGED <<pdf_file, docx_file, threshold>>
    /\ UNCHANGED scorerVars
    /\ UNCHANGED walkerVars
    /\ UNCHANGED emailVars

Next == UploadPdf \/ UploadDocx \/ MoveSlider \/ Compare

Spec == Init /\ [][Next]_vars

-----------------------------------------------------------------------------
(* Direct calls of the two parsers                                          *)

\* Longest text, in segments, of the systematic part of the parsers' inputs.
MaxSegments == 4

\* Free text between markers: two words with a whitespace run inside.
SegText == <<"a", " ", "\t", "b">>

\* The pieces a page's plain text is put together from.
PdfSegments ==
    {MarkDescription, MarkIssueImpact, MarkIssueRootCause, MarkOverallIssueRating,
     <<"\n">>, <<" ">>, SegText}

\* The pieces a DOCX paragraph is put together from.
DocxSegments ==
    {MarkIssueDescriptionC, MarkIssueRootCauseC, MarkIssueImpactC,
     MarkBackgroundContextC, MarkSectionCC, <<"\n">>, SegText}

\* Every text of at most n segments.
RECURSIVE TextsUpTo(_, _)
TextsUpTo(S, n) ==
    IF n = 0 THEN {<<>>}
    ELSE LET shorter == TextsUpTo(S, n - 1)
         IN  shorter \cup {t \o g : t \in shorter, g \in S}

\* Longer samples: a line with the Title and Issue ID labels and their
\* values, and a label phrase inside a longer line.
TextTitleLine ==
    <<"T", "i", "t", "l", "e", " ", "F", "o", "o", " ", "B", "a", "r", " ",
      "I", "s", "s", "u", "e", " ", "I", "D", " ", "I", "S", "S", "U", "E",
      "-", "1", "2", "3">>

TextEmbeddedLabel ==
    <<"M", "y", " ", "D", "e", "s", "c", "r", "i", "p", "t", "i", "o", "n",
      " ", "o", "f", " ", "t", "h", "e", " ", "e", "v", "e", "n", "t",
      "\n", "I", "s", "s", "u", "e", " ", "I", "m", "p", "a", "c", "t",
      "\n", "n", "o", "n", "e", "\n", "I", "s", "s", "u", "e", " ", "R",
      "o", "o", "t", " ", "C", "a", "u", "s", "e">>

TextIssueIdLine ==
    <<"I", "s", "s", "u", "e", " ", "I", "D", " ", "I", "S", "S", "U", "E",
      "-", "1", "2", "3">>

ParserPdfTexts ==
    TextsUpTo(PdfSegments, MaxSegments)
    \cup {TextTitleLine, TextEmbeddedLabel, PdfTextOrdersLost}

PdfOf(tables, text) ==
    [kind |-> "pdf", pages |-> << [tables |-> tables, text |-> text] >>]

\* The texts on a page without any table; the samples also beside the table
\* of the two label-value pairs.
ParserPdfFiles ==
    {PdfOf(<<>>, x) : x \in ParserPdfTexts}
    \cup {PdfFile(TitleLoginBug, IdIssue1, x) :
             x \in {TextTitleLine, TextEmbeddedLabel, PdfTextOrdersLost}}

ParserDocxTexts ==
    TextsUpTo(DocxSegments, MaxSegments) \cup {TextTitleLine, TextIssueIdLine}

DocxOf(paragraphs, tables) ==
    [kind |-> "docx", paragraphs |-> paragraphs, tables |-> tables]

\* The texts as the only paragraph of a document without any table; the
\* samples also above the table of the two label-value pairs, with and
\* without an Issue ID value.
ParserDocxFiles ==
    {DocxOf(<<x>>, <<>>) : x \in ParserDocxTexts}
    \cup {DocxOf(<<x>>, DocxFile(TitleLoginBug, i, b).tables) :
             x \in {TextTitleLine, TextIssueIdLine},
             i \in {IdIssue1, <<>>},
             b \in {DocxBodyOrdersLost, <<>>}}

InitParser ==
    /\ \/ pdf_file \in ParserPdfFiles /\ docx_file = NoFile
       \/ pdf_file = NoFile /\ docx_file \in ParserDocxFiles
    /\ threshold = SliderDefault
    /\ f1 = NoRecord
    /\ f2 = NoRecord
    /\ scores = NoRecord
    /\ sim_rows = <<>>
    /\ error = NoError
    /\ ScorerIdle
    /\ WalkerIdle
    /\ EmailIdle

\* f1 = parse_issue_briefing_pdf_from_file(pdf_bytes)
CallParsePdf ==
    /\ pdf_file # NoFile
    /\ f1 = NoRecord
    /\ f1' = parse_issue_briefing_pdf_from_file(pdf_file.pages)
    /\ UNCHANGED <<pdf_file, docx_file, threshold, f2, scores, sim_rows, error>>
    /\ UNCHANGED scorerVars
    /\ UNCHANGED walkerVars
    /\ UNCHANGED emailVars

\* f2 = parse_icp_docx_from_file(docx_bytes)
CallParseDocx ==
    /\ docx_file # NoFile
    /\ f2 = NoRecord
    /\ f2' = parse_icp_docx_from_file(docx_file)
    /\ UNCHANGED <<pdf_file, docx_file, threshold, f1, scores, sim_rows, error>>
    /\ UNCHANGED scorerVars
    /\ UNCHANGED walkerVars
    /\ UNCHANGED emailVars

NextParser == CallParsePdf \/ CallParseDocx

SpecParser == InitParser /\ [][NextParser]_vars

-----------------------------------------------------------------------------
(* The email export (src/streamlit_email_generator.py)                      *)
(*                                                                         *)
(* A text of this part is a sequence of tokens: the characters "{", "}",   *)
(* ":" and "!" that str.format interprets are tokens of their own, every   *)
(* other token is a run of text without them, and a value substituted into *)
(* a text is one token.                                                    *)

TEMPLATE_CONFIG ==
    ("Template 1" :>
        [file |-> "email_template.txt",
         column_mapping |->
            [account_name |-> "Feed Account Name",
             broker_name |-> "Feed Broker Name",
             account_number |-> "Feed Account Number",
             employee_id |-> "BRID",
             employee_name |-> "Employee Name",
             email |-> "Email Address"]])
    @@ ("Template 2" :>
        [file |-> "email_template2.txt",
         column_mapping |->
            [account_name |-> "Account Name",
             broker_name |-> "Broker Name",
             account_number |-> "Account Number",
             employee_id |-> "Employee ID",
             employee_name |-> "Employee Name",
             email |-> "Email"]])
    @@ ("Template 3" :>
        [file |-> "email_template3.txt",
         column_mapping |->
            [account_name |-> "Client Name",
             broker_name |-> "Institution",
             account_number |-> "Account ID",
             employee_id |-> "Staff ID",
             employee_name |-> "Staff Name",
             email |-> "Contact Email"]])

\* DEFAULT_TEMPLATES["email_template.txt"]
EmailTemplate1 ==
    <<
    "<", "!",
    "DOCTYPE html>\n<html>\n<head>\n    <meta charset=\"UTF-8\">\n    <meta name=\"viewport\" content=\"width=device-width, initial-scale=1.0\">\n    <title>Compliance Review - BRID ",
    "{", "brid", "}", "</title>\n    <style>\n        body ", "{",
    " font-family", ":", " Calibri, Arial, sans-serif; font-size", ":",
    " 11pt; line-height", ":", " 1.4; max-width", ":", " 800px; ", "}",
    "\n        .header ", "{", " background-color", ":",
    " #A0B2C4; border-top", ":", " solid 1px #80B2C4; padding", ":",
    " 10px 20px; border-radius", ":", " 6px; ", "}",
    "\n        .header-text ", "{", " color", ":", " #101F2A; font-size", ":",
    " 14pt; font-weight", ":", " bold; ", "}", "\n        .accounts-table ",
    "{", " border-collapse", ":", " collapse; width", ":", " 100%; margin",
    ":", " 10px 0; ", "}",
    "\n        .accounts-table th, .accounts-table td ", "{", " border", ":",
    " 1px solid #ddd; padding", ":", " 8px; text-align", ":", " left; ", "}",
    "\n        .accounts-table th ", "{", " background-color", ":",
    " #f2f2f2; ", "}", "\n        .footer ", "{", " margin-top", ":",
    " 20px; padding", ":", " 10px; background-color", ":",
    " #E7E7E7; border-radius", ":", " 4px; ", "}",
    "\n    </style>\n</head>\n<body>\n    <div class=\"header\">\n        <span class=\"header-text\">URGENT",
    ":", " Compliance Review Required</span>\n    </div>\n\n    <p><br>Hi ",
    "{", "employee_name", "}",
    ",<br><br>\n\n    As a <a href=\"#\" style=\"text-decoration", ":",
    " none; color", ":",
    " #104C71;\">Designated Control Employee</a>, you are required to ensure that all <a href=\"#\" style=\"text-decoration",
    ":", " none; color", ":",
    " #104C71;\">Personal Trading</a> accounts are appropriately reflected in your Compliance disclosures.\n    <br><br>\n\n    Please review the following account(s) and confirm they are correctly disclosed",
    ":", "\n    <br><br>\n\n    ", "{", "accounts_html", "}",
    "\n    <br>\n\n    <p style=\"font-size", ":", " 10pt; color", ":",
    " #643E04; font-weight", ":", " bold;\">Response Required By", ":", " ",
    "{", "due_date", "}",
    "</p>\n\n    <div class=\"footer\">\n        <p style=\"font-size", ":",
    " 10pt; margin", ":",
    " 0;\">Compliance Team<br>\n        Risk & Compliance Division</p>\n    </div>\n</body>\n</html>"
    >>

\* DEFAULT_TEMPLATES["email_template2.txt"]
EmailTemplate2 ==
    <<
    "<", "!",
    "DOCTYPE html>\n<html>\n<head>\n    <meta charset=\"UTF-8\">\n    <meta name=\"viewport\" content=\"width=device-width, initial-scale=1.0\">\n    <title>Account Review - ID ",
    "{", "brid", "}", "</title>\n    <style>\n        body ", "{",
    " font-family", ":", " Calibri, Arial, sans-serif; font-size", ":",
    " 11pt; line-height", ":", " 1.4; max-width", ":", " 800px; ", "}",
    "\n        .header ", "{", " background-color", ":",
    " #A0B2C4; border-top", ":", " solid 1px #80B2C4; padding", ":",
    " 10px 20px; border-radius", ":", " 6px; ", "}",
    "\n        .header-text ", "{", " color", ":", " #101F2A; font-size", ":",
    " 14pt; font-weight", ":", " bold; ", "}", "\n        .accounts-table ",
    "{", " border-collapse", ":", " collapse; width", ":", " 100%; margin",
    ":", " 10px 0; ", "}",
    "\n        .accounts-table th, .accounts-table td ", "{", " border", ":",
    " 1px solid #ddd; padding", ":", " 8px; text-align", ":", " left; ", "}",
    "\n        .accounts-table th ", "{", " background-color", ":",
    " #f2f2f2; ", "}",
    "\n    </style>\n</head>\n<body>\n    <div class=\"header\">\n        <span class=\"header-text\">ACTION REQUIRED",
    ":", " Account Review</span>\n    </div>\n\n    <p><br>Dear ", "{",
    "employee_name", "}",
    ",<br><br>\n\n    This is a notification regarding your registered trading accounts. Please review and confirm the accuracy of the following information",
    ":", "\n    <br><br>\n\n    ", "{", "accounts_html", "}",
    "\n    <br>\n\n    <p style=\"font-size", ":", " 10pt; color", ":",
    " #643E04; font-weight", ":", " bold;\">Please respond by", ":", " ", "{",
    "due_date", "}", "</p>\n\n    <p style=\"font-size", ":",
    " 10pt;\">Best regards,<br>Compliance Operations Team</p>\n</body>\n</html>"
    >>

\* DEFAULT_TEMPLATES["email_template3.txt"]
EmailTemplate3 ==
    <<
    "<", "!",
    "DOCTYPE html>\n<html>\n<head>\n    <meta charset=\"UTF-8\">\n    <meta name=\"viewport\" content=\"width=device-width, initial-scale=1.0\">\n    <title>Client Account Review - ",
    "{", "brid", "}", "</title>\n    <style>\n        body ", "{",
    " font-family", ":", " Calibri, Arial, sans-serif; font-size", ":",
    " 11pt; line-height", ":", " 1.4; max-width", ":", " 800px; ", "}",
    "\n        .header ", "{", " background-color", ":",
    " #A0B2C4; border-top", ":", " solid 1px #80B2C4; padding", ":",
    " 10px 20px; border-radius", ":", " 6px; ", "}",
    "\n        .header-text ", "{", " color", ":", " #101F2A; font-size", ":",
    " 14pt; font-weight", ":", " bold; ", "}", "\n        .accounts-table ",
    "{", " border-collapse", ":", " collapse; width", ":", " 100%; margin",
    ":", " 10px 0; ", "}",
    "\n        .accounts-table th, .accounts-table td ", "{", " border", ":",
    " 1px solid #ddd; padding", ":", " 8px; text-align", ":", " left; ", "}",
    "\n        .accounts-table th ", "{", " background-color", ":",
    " #f2f2f2; ", "}",
    "\n    </style>\n</head>\n<body>\n    <div class=\"header\">\n        <span class=\"header-text\">NOTICE",
    ":", " Client Account Review</span>\n    </div>\n\n    <p><br>Hello ",
    "{", "employee_name", "}",
    ",<br><br>\n\n    As part of our regular compliance procedures, please review the following client accounts under your management",
    ":", "\n    <br><br>\n\n    ", "{", "accounts_html", "}",
    "\n    <br>\n\n    <p style=\"font-size", ":", " 10pt; color", ":",
    " #643E04; font-weight", ":", " bold;\">Review deadline", ":", " ", "{",
    "due_date", "}", "</p>\n\n    <p style=\"font-size", ":",
    " 10pt;\">Thank you for your attention to this matter.<br>Client Services & Compliance</p>\n</body>\n</html>"
    >>

DEFAULT_TEMPLATES ==
    ("email_template.txt" :> EmailTemplate1)
    @@ ("email_template2.txt" :> EmailTemplate2)
    @@ ("email_template3.txt" :> EmailTemplate3)

\* try: DEFAULT_TEMPLATES[TEMPLATE_CONFIG[template_name]["file"]]
\* except KeyError: return ""
load_email_template(name) ==
    IF /\ name \in DOMAIN TEMPLATE_CONFIG
       /\ TEMPLATE_CONFIG[name].file \in DOMAIN DEFAULT_TEMPLATES
    THEN DEFAULT_TEMPLATES[TEMPLATE_CONFIG[name].file]
    ELSE <<>>

get_column_mapping(name) == TEMPLATE_CONFIG[name].column_mapping

\* The "}" that closes the replacement field whose text starts at token i;
\* a "{" inside the field opens a nested one.  0: the field is not closed.
RECURSIVE FieldEnd(_, _, _)
FieldEnd(t, i, depth) ==
    IF i > Len(t) THEN 0
    ELSE IF t[i] = "}" THEN
        IF depth = 1 THEN i ELSE FieldEnd(t, i + 1, depth - 1)
    ELSE IF t[i] = "{" THEN FieldEnd(t, i + 1, depth + 1)
    ELSE FieldEnd(t, i + 1, depth)

\* str.format(**kwargs) from token i on, acc being the text produced so far.
\* "{{" and "}}" are literal braces; any other "{" opens a replacement field
\* whose name is the text before the first ":" or "!"; the name is looked up
\* in kwargs (KeyError), an empty name is the next positional argument, of
\* which there is none (IndexError); a lone "}" is a ValueError.  The fields
\* are rendered left to right, so the first failing field ends the call.
\* No field of DEFAULT_TEMPLATES that names a keyword argument carries a
\* conversion or a format spec; such a field is outside this model and
\* reported as ValueError.
RECURSIVE FormatFrom(_, _, _, _)
FormatFrom(t, i, kwargs, acc) ==
    IF i > Len(t) THEN Returned(acc)
    ELSE IF t[i] = "{" THEN
        IF i < Len(t) /\ t[i + 1] = "{"
        THEN FormatFrom(t, i + 2, kwargs, Append(acc, "{"))
        ELSE LET close == FieldEnd(t, i + 1, 1)
             IN  IF close = 0 THEN Raised("ValueError")
                 ELSE IF t[i + 1] \in {"}", ":", "!"} THEN Raised("IndexError")
                 ELSE IF t[i + 1] \notin DOMAIN kwargs THEN Raised("KeyError")
                 ELSE IF close = i + 2
                 THEN FormatFrom(t, close + 1, kwargs, acc \o kwargs[t[i + 1]])
                 ELSE Raised("ValueError")
    ELSE IF t[i] = "}" THEN
        IF i < Len(t) /\ t[i + 1] = "}"
        THEN FormatFrom(t, i + 2, kwargs, Append(acc, "}"))
        ELSE Raised("ValueError")
    ELSE FormatFrom(t, i + 1, kwargs, Append(acc, t[i]))

Format(template, kwargs) == FormatFrom(template, 1, kwargs, <<>>)

\* The clock readings of a call: datetime.now() as create_eml_file formats
\* it, and the date seven days later that get_due_date formats.
Clock ==
    {[now |-> "Wed, 04 Nov 2026 09:00:00 +0000",
      due |-> [day |-> 11, b |-> "Nov", y |-> "26"]],
     [now |-> "Sun, 15 Nov 2026 09:00:00 +0000",
      due |-> [day |-> 22, b |-> "Nov", y |-> "26"]],
     [now |-> "Tue, 24 Nov 2026 09:00:00 +0000",
      due |-> [day |-> 1, b |-> "Dec", y |-> "26"]]}

\* strftime pads the day to two digits and .replace removes the padding
\* again: the day is printed unpadded (%y differs from every padded day
\* from the year 2010 on).
get_due_date(due) ==
    LET suffix ==
            IF 10 <= due.day % 100 /\ due.day % 100 <= 20 THEN "th"
            ELSE IF due.day % 10 = 1 THEN "st"
            ELSE IF due.day % 10 = 2 THEN "nd"
            ELSE IF due.day % 10 = 3 THEN "rd"
            ELSE "th"
    IN  <<ToString(due.day), suffix, " ", due.b, " ", due.y>>

\* for _, row in group.iterrows(): the <tr> of each row, in roster order
RECURSIVE AccountRows(_, _)
AccountRows(group, column_mapping) ==
    IF group = <<>> THEN <<>>
    ELSE <<<<"<tr>">>,
           <<"<td>", Head(group)[column_mapping.account_name], "</td>">>,
           <<"<td>", Head(group)[column_mapping.broker_name], "</td>">>,
           <<"<td>", Head(group)[column_mapping.account_number], "</td>">>,
           <<"</tr>">>>>
         \o AccountRows(Tail(group), column_mapping)

build_accounts_html(group, column_mapping) ==
    Join(<<<<"<table class=\"accounts-table\">">>, <<"<thead>">>, <<"<tr>">>,
           <<"<th>Account Name</th>">>, <<"<th>Broker/Institution</th>">>,
           <<"<th>Account Number</th>">>, <<"</tr>">>, <<"</thead>">>,
           <<"<tbody>">>>>
         \o AccountRows(group, column_mapping)
         \o <<<<"</tbody>">>, <<"</table>">>>>,
         <<"\n">>)

\* os.path.basename of the file create_eml_file writes for employee_id
EmlName(employee_id) == <<"compliance_email_", employee_id, ".eml">>

\* create_eml_file: the file name returned (None when open or write raised)
\* and temp_dir after the call.  unwritable: the employee ids whose file the
\* file system refuses.
create_eml_file(dir, employee_id, to_email, cc_email, subject, body_html, now, unwritable) ==
    IF employee_id \in unwritable
    THEN [file |-> None, temp_dir |-> dir]
    ELSE [file |-> EmlName(employee_id),
          temp_dir |->
            Put(dir, EmlName(employee_id),
                Join(<<<<"X-Unsent", ":", " 1">>,
                       <<"From", ":", " compliance@company.com">>,
                       <<"To", ":", " ", to_email>>,
                       <<"Cc", ":", " ", cc_email>>,
                       <<"Subject", ":", " ">> \o subject,
                       <<"Date", ":", " ", now>>,
                       <<"MIME-Version", ":", " 1.0">>,
                       <<"Content-Type", ":", " text/html; charset=utf-8">>,
                       <<"Content-Transfer-Encoding", ":",
                         " quoted-printable">>,
                       <<>>,
                       body_html>>,
                     <<"\n">>))]

\* The values of the roster's key columns, each list in ascending order.
EmployeeIds == <<"E1", "E2">>

EmployeeNames == <<"Ann", "Bob">>

Emails == <<"ann@x.com", "bob@x.com">>

Rank(values, v) == CHOOSE i \in DOMAIN values : values[i] = v

\* Tuple order of the group keys (employee_id, employee_name, email).
KeyBefore(j, k) ==
    LET a == <<Rank(EmployeeIds, j[1]), Rank(EmployeeNames, j[2]),
               Rank(Emails, j[3])>>
        b == <<Rank(EmployeeIds, k[1]), Rank(EmployeeNames, k[2]),
               Rank(Emails, k[3])>>
    IN  \E i \in 1..Len(a) :
            /\ a[i] < b[i]
            /\ \A h \in 1..(i - 1) : a[h] = b[h]

GroupKey(row, column_mapping) ==
    <<row[column_mapping.employee_id], row[column_mapping.employee_name],
      row[column_mapping.email]>>

RECURSIVE SortedKeys(_)
SortedKeys(keys) ==
    IF keys = {} THEN <<>>
    ELSE LET first == CHOOSE k \in keys :
                          \A j \in keys \ {k} : KeyBefore(k, j)
         IN  <<first>> \o SortedKeys(keys \ {first})

\* df.groupby([employee_id, employee_name, email]): the keys in sort order
Grouped(df, column_mapping) ==
    SortedKeys({GroupKey(df[i], column_mapping) : i \in DOMAIN df})

GroupOf(df, column_mapping, key) ==
    SelectSeq(df, LAMBDA row : GroupKey(row, column_mapping) = key)

\* The loop "for (employee_id, employee_name, email), group in grouped" from
\* the group keys[1] on.  call: the values fixed before the loop.
RECURSIVE ExportGroups(_, _, _, _, _)
ExportGroups(keys, df, call, dir, created) ==
    IF keys = <<>>
    THEN [exc |-> NoError, temp_dir |-> dir, created_files |-> created]
    ELSE LET key == Head(keys)
             email_body ==
                Format(call.template_content,
                       [employee_name |-> <<key[2]>>,
                        brid |-> <<key[1]>>,
                        due_date |-> call.due_date,
                        accounts_html |->
                            build_accounts_html(
                                GroupOf(df, call.column_mapping, key),
                                call.column_mapping)])
         IN  IF email_body.raised
             THEN [exc |-> email_body.exc, temp_dir |-> dir,
                   created_files |-> created]
             ELSE LET eml == create_eml_file(
                                dir, key[1], key[3], call.cc_email,
                                <<"Compliance Review - BRID ", key[1]>>,
                                email_body.value, call.now, call.unwritable)
                  IN  ExportGroups(Tail(keys), df, call, eml.temp_dir,
                                   IF eml.file # None
                                   THEN Append(created, eml.file)
                                   ELSE created)

\* return None
ExportNone == [kind |-> "None", files |-> <<>>]

\* zip_file.write(file_path, os.path.basename(file_path)) for each created
\* file, and the bytes of the archive
Zip(dir, created) ==
    [kind |-> "zip",
     files |-> <<>> \o [i \in DOMAIN created |->
                          [name |-> created[i], content |-> dir[created[i]]]]]

\* export_emails_as_files: the return value, with the files written, the
\* names collected and the exception caught by "except Exception".
export_emails_as_files(df, cc_email, name, clock, unwritable) ==
    LET column_mapping == get_column_mapping(name)
        done == ExportGroups(Grouped(df, column_mapping), df,
                             [column_mapping |-> column_mapping,
                              template_content |-> load_email_template(name),
                              due_date |-> get_due_date(clock.due),
                              cc_email |-> cc_email,
                              now |-> clock.now,
                              unwritable |-> unwritable],
                             EmptyDict, <<>>)
    IN  [zip_content |->
            IF done.exc = NoError /\ done.created_files # <<>>
            THEN Zip(done.temp_dir, done.created_files)
            ELSE ExportNone,
         temp_dir |-> done.temp_dir,
         created_files |-> done.created_files,
         st_error |-> done.exc]

\* Most rows of a roster.
MaxRoster == 2

\* The rows of a roster with the columns of a template.
RosterRows(column_mapping) ==
    {(column_mapping.employee_id :> id)
     @@ (column_mapping.employee_name :> name)
     @@ (column_mapping.email :> email)
     @@ (column_mapping.account_name :> "ISA")
     @@ (column_mapping.broker_name :> "Acme")
     @@ (column_mapping.account_number :> "001") :
        id \in Range(EmployeeIds), name \in Range(EmployeeNames),
        email \in Range(Emails)}

Rosters(name) ==
    UNION {[1..n -> RosterRows(get_column_mapping(name))] : n \in 0..MaxRoster}

CcEmails == {"compliance@company.com"}

InitEmail ==
    /\ template_name \in DOMAIN TEMPLATE_CONFIG
    /\ df_clean \in Rosters(template_name)
    /\ temp_dir = EmptyDict
    /\ created_files = <<>>
    /\ zip_content = NotExported
    /\ st_error = NoError
    /\ ScorerIdle
    /\ WalkerIdle
    /\ AppIdle

\* zip_content = export_emails_as_files(df_clean, cc_email, selected_template)
CallExportEmails ==
    /\ zip_content = NotExported
    /\ \E cc_email \in CcEmails, clock \in Clock,
          unwritable \in SUBSET Range(EmployeeIds) :
          \E r \in {export_emails_as_files(df_clean, cc_email, template_name,
                                           clock, unwritable)} :
              /\ zip_content' = r.zip_content
              /\ temp_dir' = r.temp_dir
              /\ created_files' = r.created_files
              /\ st_error' = r.st_error
    /\ UNCHANGED <<df_clean, template_name>>
    /\ UNCHANGED scorerVars
    /\ UNCHANGED walkerVars
    /\ UNCHANGED appVars

NextEmail == CallExportEmails

SpecEmail == InitEmail /\ [][NextEmail]_vars

-----------------------------------------------------------------------------
(* Properties of main                                                       *)

\* A run that parsed both files; one that also produced the scores.
Parsed == f1 # NoRecord /\ f2 # NoRecord

Scored == scores # NoRecord

\* C4: the Issue ID score is exactly 1.0 when the two records' Issue ID
\* strings are equal (two empty strings included) and exactly 0.0 otherwise;
\* it is never the TF-IDF similarity of the two strings.
C4_IssueIDExact ==
    Scored =>
        /\ scores["Issue ID"] \in {0, Permille}
        /\ scores["Issue ID"] = Permille <=> f1["Issue ID"] = f2["Issue ID"]

\* Two empty Issue IDs, scored 1.0.
C4_Witness ==
    /\ Scored
    /\ f1["Issue ID"] = <<>>
    /\ f2["Issue ID"] = <<>>
    /\ scores["Issue ID"] = Permille

\* C5: Overall is the sum of the five field scores divided by 5, however
\* many fields are empty; the Overall entry is in neither the sum nor the
\* divisor.
C5_OverallIsMeanOfFive ==
    Scored =>
        /\ DOMAIN scores = FieldKeys \cup {"Overall"}
        /\ scores["Overall"] =
               (scores["Issue ID"] + scores["Title"] + scores["Description"]
                + scores["Issue Root Cause"] + scores["Issue Impact"]) \div 5

\* Scores of two records with empty fields on one side, not all zero.
C5_Witness ==
    /\ Scored
    /\ f1["Description"] = <<>>
    /\ f2["Description"] # <<>>
    /\ scores["Description"] = 0
    /\ scores["Overall"] > 0
    /\ scores["Overall"] < Permille

\* C6: a row is labelled Match iff its score >= the threshold used, which
\* is 1.0 for Issue ID and the slider's value for the other four fields and
\* Overall; so the Issue ID row is Match iff the two Issue IDs are equal,
\* whatever the slider says.
C6_LabelsByThreshold ==
    Scored =>
        /\ Len(sim_rows) = 6
        /\ \A i \in 1..6 :
              LET row == sim_rows[i]
                  used == IF row.Field = "Issue ID" THEN Permille ELSE threshold
              IN  /\ row.Score = scores[row.Field]
                  /\ row.Result \in {"Match", "Mismatch"}
                  /\ row.Result = "Match" <=> row.Score >= used
        /\ \E i \in 1..6 :
              /\ sim_rows[i].Field = "Issue ID"
              /\ sim_rows[i].Result = "Match" <=> f1["Issue ID"] = f2["Issue ID"]

\* The slider at 0.0 and two different Issue IDs: every other row is Match,
\* the Issue ID row is Mismatch.
C6_Witness ==
    /\ Scored
    /\ threshold = SliderMin
    /\ f1["Issue ID"] # f2["Issue ID"]
    /\ \A i \in 1..6 :
          sim_rows[i].Result = "Mismatch" <=> sim_rows[i].Field = "Issue ID"

\* The parsed text a span rule of the PDF parser searches, and of the DOCX
\* parser.
PdfSearched == PdfCombined(pdf_file.pages)

DocxSearched == DocxCombined(docx_file)

\* C7: both parsers return a record with exactly the five keys, each mapped
\* to a string; a field no rule matched is "" and not missing.
C7_RecordsFullyPopulated ==
    Parsed =>
        /\ DOMAIN f1 = FieldKeys
        /\ DOMAIN f2 = FieldKeys
        /\ \A k \in FieldKeys : f1[k] # None /\ f2[k] # None
        /\ PdfAllRows(pdf_file.pages) = <<>> =>
              f1["Title"] = <<>> /\ f1["Issue ID"] = <<>>
        /\ FindFrom(PdfSearched, MarkDescription, 1) = 0 => f1["Description"] = <<>>
        /\ FindFrom(PdfSearched, MarkIssueImpact, 1) = 0 => f1["Issue Impact"] = <<>>
        /\ FindFrom(PdfSearched, MarkIssueRootCause, 1) = 0 =>
              f1["Issue Root Cause"] = <<>>
        /\ FindFrom(DocxSearched, MarkIssueDescriptionC, 1) = 0 =>
              f2["Description"] = <<>>
        /\ FindFrom(DocxSearched, MarkIssueRootCauseC, 1) = 0 =>
              f2["Issue Root Cause"] = <<>>
        /\ FindFrom(DocxSearched, MarkIssueImpactC, 1) = 0 => f2["Issue Impact"] = <<>>

\* A PDF in which no rule matched at all, beside a DOCX whose Issue ID pair
\* was skipped and whose span rules matched nothing.
C7_Witness ==
    /\ Parsed
    /\ pdf_file = PdfBlank
    /\ f1 = [k \in FieldKeys |-> <<>>]
    /\ f2["Title"] # <<>>
    /\ \A k \in FieldKeys \ {"Title"} : f2[k] = <<>>

\* The exceptions of the libraries that read the two files.
LibraryErrors == {"PDFSyntaxError", "BadZipFile"}

\* A run that a file which cannot be read has ended.
ReadFailed == error \in LibraryErrors

\* C16 as stated: a file that cannot be read surfaces as a typed
\* DocumentParseError; no Field Record is produced for it, none of default
\* values stands in for it, and no similarity report is computed.
C16_TypedDocumentParseError ==
    /\ (error # NoError /\ (pdf_file = Malformed \/ docx_file = Malformed)) =>
          /\ error = "DocumentParseError"
          /\ pdf_file = Malformed => f1 = NoRecord
          /\ docx_file = Malformed => f2 = NoRecord
          /\ scores = NoRecord /\ sim_rows = <<>>
    /\ (pdf_file = Malformed \/ docx_file = Malformed) =>
          f1 = NoRecord /\ f2 = NoRecord /\ scores = NoRecord

\* C16 amended: a file that cannot be read surfaces as the exception of the
\* library that reads it, which main neither catches nor wraps; the run ends
\* there with no Field Record for either file, none of default values, and
\* no similarity report.
C16_LibraryErrorEndsRun ==
    /\ error # "DocumentParseError"
    /\ ReadFailed <=>
          (error # NoError /\ (pdf_file = Malformed \/ docx_file = Malformed))
    /\ (pdf_file = Malformed \/ docx_file = Malformed) =>
          /\ f1 = NoRecord /\ f2 = NoRecord
          /\ scores = NoRecord /\ sim_rows = <<>>
          /\ error \in LibraryErrors \cup {NoError}
    /\ error = "PDFSyntaxError" => pdf_file = Malformed
    /\ error = "BadZipFile" => docx_file = Malformed /\ pdf_file # Malformed

\* Compare pressed with a readable PDF and a DOCX that cannot be read.
C16_Witness ==
    /\ pdf_file \notin {NoFile, Malformed}
    /\ docx_file = Malformed
    /\ error = "BadZipFile"
    /\ f1 = NoRecord
    /\ f2 = NoRecord
    /\ scores = NoRecord

-----------------------------------------------------------------------------
(* Properties of the table walk                                             *)

\* The label positions of the walked rows in walk order: <<r, j>> is cell j
\* of row r, the first cell of a pair (cell j + 1 exists).
LabelPositions ==
    UNION { { <<r, j>> : j \in {x \in 1..Len(rows[r]) :
                                    x % 2 = 1 /\ x < Len(rows[r])} } :
            r \in 1..Len(rows) }

Before(p, q) == p[1] < q[1] \/ (p[1] = q[1] /\ p[2] < q[2])

\* A label cell trimmed, its trailing colons removed, trimmed again; the
\* page-based parser first replaces each newline by a space.  Letter case
\* and the whitespace inside the label are kept.
TrimmedLabel(c) ==
    IF walker = "pdf"
    THEN IF c = None THEN <<>>
         ELSE Strip(RStripChars(ReplaceChar(Strip(c), "\n", " "), {":"}))
    ELSE Strip(RStripChars(Strip(c), {":"}))

TrimmedValue(c) ==
    IF walker = "pdf"
    THEN IF c = None THEN <<>> ELSE Strip(ReplaceChar(Strip(c), "\n", " "))
    ELSE Strip(c)

LabelAt(p) == TrimmedLabel(rows[p[1]][p[2]])

ValueAt(p) == TrimmedValue(rows[p[1]][p[2] + 1])

\* The pairs a parser stores: the page-based one skips an empty label, the
\* grid-based one an empty label or an empty value.
StoredPositions ==
    {p \in LabelPositions :
        /\ LabelAt(p) # <<>>
        /\ walker = "docx" => ValueAt(p) # <<>>}

\* The last position of set P in walk order.
LastOf(P) == CHOOSE p \in P : \A q \in P : q = p \/ Before(q, p)

\* C8 as stated: when a label occurs more than once with different values,
\* kv_map holds the value of its last occurrence in walk order, whatever
\* that value is.
C8_LastOccurrenceWins ==
    \A p, q \in LabelPositions :
        (Before(p, q) /\ LabelAt(p) = LabelAt(q) /\ LabelAt(p) # <<>>
            /\ ValueAt(p) # ValueAt(q))
        => LET last == LastOf({x \in LabelPositions : LabelAt(x) = LabelAt(p)})
           IN  /\ LabelAt(p) \in DOMAIN kv_map
               /\ kv_map[LabelAt(p)] = ValueAt(last)

\* C8 amended: when a label occurs more than once with different values,
\* kv_map holds the value of its last stored occurrence in walk order: in
\* the page-based parser the last occurrence, whatever its value; in the
\* grid-based parser the last occurrence whose value cell is not empty.
C8_LastStoredOccurrenceWins ==
    \A p, q \in LabelPositions :
        (Before(p, q) /\ LabelAt(p) = LabelAt(q) /\ LabelAt(p) # <<>>
            /\ ValueAt(p) # ValueAt(q))
        => LET last == LastOf({x \in StoredPositions : LabelAt(x) = LabelAt(p)})
           IN  /\ LabelAt(p) \in DOMAIN kv_map
               /\ kv_map[LabelAt(p)] = ValueAt(last)

\* The page-based parser walked a label twice, the later value empty, and
\* holds the empty value.
C8_Witness ==
    /\ walker = "pdf"
    /\ rows = << <<CellIssueID, CellFoo>>, <<CellIssueIDPadded, <<>> >> >>
    /\ kv_map[CellIssueID] = <<>>

\* C9: the entries of kv_map are exactly the stored pairs (cell 1, cell 2),
\* (cell 3, cell 4), ... of the walked rows: every key is the label of such
\* a pair and its value that pair's second cell, and every such pair is
\* stored; so the final cell of a row with an odd number of cells is
\* neither a key nor a value.
C9_ConsecutivePairs ==
    /\ \A k \in DOMAIN kv_map :
          \E p \in StoredPositions : LabelAt(p) = k /\ ValueAt(p) = kv_map[k]
    /\ \A p \in StoredPositions : LabelAt(p) \in DOMAIN kv_map

\* The row A:, 1, B:, 2, C: was walked and kv_map is {A: 1, B: 2}.
C9_Witness ==
    /\ walker = "docx"
    /\ rows = << <<<<"A", ":">>, <<"1">>, <<"B", ":">>, <<"2">>, <<"C", ":">>>> >>
    /\ DOMAIN kv_map = {<<"A">>, <<"B">>}
    /\ kv_map[<<"A">>] = <<"1">>
    /\ kv_map[<<"B">>] = <<"2">>

\* C10 as stated: every key of kv_map is case-folded, its whitespace runs
\* collapsed to one space, trimmed, without a trailing colon.
C10_KeysCaseFolded ==
    /\ \A k \in DOMAIN kv_map :
          /\ k = LowerStr(k)
          /\ k = JoinSplit(k)
          /\ k[Len(k)] # ":"
    /\ walker = "pdf"
          /\ (\E p \in StoredPositions : LowerStr(LabelAt(p)) = LowerStr(KeyIssueID))
          => PdfIssueID(kv_map) # <<>> \/ (\A p \in StoredPositions : ValueAt(p) = <<>>)

\* C10 amended: every key of kv_map is a label cell trimmed, with its
\* trailing colons removed and trimmed again (the page-based parser first
\* replaces each newline by a space), letter case and inner whitespace kept
\* as they are; so labels that differ only in surrounding whitespace or
\* trailing colons share one key, and a label in another letter case has a
\* key of its own.
C10_KeysTrimmedOnly ==
    /\ DOMAIN kv_map = {LabelAt(p) : p \in StoredPositions}
    /\ \A p, q \in StoredPositions :
          LowerStr(LabelAt(p)) = LowerStr(LabelAt(q)) /\ LabelAt(p) # LabelAt(q)
          => Cardinality(DOMAIN kv_map \cap {LabelAt(p), LabelAt(q)}) = 2
    /\ walker = "pdf" /\ (\A p \in StoredPositions : LabelAt(p) # KeyIssueID)
          => PdfIssueID(kv_map) = <<>>
    /\ walker = "docx" /\ (\A p \in StoredPositions : LabelAt(p) # KeyIssueTitle)
          => DocxTitle(kv_map) = <<>>

\* The plain, the padded and the lower-case label were walked: the first two
\* share the key "Issue ID", the third has the key "issue id".
C10_Witness ==
    /\ walker = "pdf"
    /\ rows = << <<CellIssueID, CellFoo>>,
                 <<CellIssueIDPadded, CellFoo, CellIssueIDLower, CellBar>> >>
    /\ DOMAIN kv_map = {KeyIssueID, CellIssueIDLower}
    /\ PdfIssueID(kv_map) = CellFoo

-----------------------------------------------------------------------------
(* Properties of the two parsers                                            *)

\* The span rules of the PDF parser and of the DOCX parser: the field, its
\* opening marker, the least whitespace the pattern asks for after it, and
\* its closing markers in the order they are tried.
PdfRules ==
    { [field |-> "Description", opener |-> MarkDescription, minWs |-> 1,
       closers |-> <<MarkIssueImpact>>],
      [field |-> "Issue Impact", opener |-> MarkIssueImpact, minWs |-> 1,
       closers |-> <<MarkIssueRootCause>>],
      [field |-> "Issue Root Cause", opener |-> MarkIssueRootCause, minWs |-> 1,
       closers |-> <<MarkOverallIssueRating>>] }

DocxRules ==
    { [field |-> "Description", opener |-> MarkIssueDescriptionC, minWs |-> 0,
       closers |-> <<MarkIssueRootCauseC>>],
      [field |-> "Issue Root Cause", opener |-> MarkIssueRootCauseC, minWs |-> 0,
       closers |-> <<MarkIssueImpactC>>],
      [field |-> "Issue Impact", opener |-> MarkIssueImpactC, minWs |-> 0,
       closers |-> <<MarkBackgroundContextC, MarkSectionCC>>] }

\* A state after a direct call of a parser.
ParsedPdf == pdf_file # NoFile /\ pdf_file # Malformed /\ f1 # NoRecord

ParsedDocx == docx_file # NoFile /\ docx_file # Malformed /\ f2 # NoRecord

\* The index right after the first occurrence of a rule's opening marker in
\* text, or 0 when the marker does not occur.
OpenerEnd(text, rule) ==
    LET p == FindFrom(text, rule.opener, 1)
    IN  IF p = 0 THEN 0 ELSE p + Len(rule.opener)

\* The closing marker of a rule that bounds the span in text: the first of
\* its closing markers that occurs after the opening marker (the first of
\* the list when none does).
ClosingMarker(text, rule) ==
    LET e == OpenerEnd(text, rule)
        found == {j \in 1..Len(rule.closers) : FindFrom(text, rule.closers[j], e) # 0}
    IN  IF found = {} THEN rule.closers[1]
        ELSE rule.closers[CHOOSE j \in found : \A k \in found : j <= k]

\* The text strictly between the first opening marker and the nearest
\* following closing marker, whitespace-normalized.
TextBetween(text, rule) ==
    LET e == OpenerEnd(text, rule)
        c == FindFrom(text, ClosingMarker(text, rule), e)
    IN  JoinSplit(SubSeq(text, e, c - 1))

\* The opening marker occurs, the whitespace its pattern asks for follows it,
\* and a closing marker occurs after it.
Delimited(text, rule) ==
    LET e == OpenerEnd(text, rule)
    IN  /\ e # 0
        /\ WhitespaceRun(text, e) >= rule.minWs
        /\ FindFrom(text, ClosingMarker(text, rule), e) # 0

\* C11 as stated: the value of Description, Issue Impact and Issue Root
\* Cause is the text strictly between the opening marker and the nearest
\* following closing marker, and so never contains the closing marker, also
\* when nothing or only whitespace lies between the two.
SpanStrictlyBetween(text, rules, f) ==
    \A rule \in rules :
        Delimited(text, rule) =>
            /\ f[rule.field] = TextBetween(text, rule)
            /\ FindFrom(f[rule.field], ClosingMarker(text, rule), 1) = 0

C11_SpanStrictlyBetween ==
    /\ ParsedPdf => SpanStrictlyBetween(PdfSearched, PdfRules, f1)
    /\ ParsedDocx => SpanStrictlyBetween(DocxSearched, DocxRules, f2)

\* The opening marker occurs with the whitespace its pattern asks for, and
\* the nearest following closing marker comes after at least one character
\* that is not whitespace.
WellDelimited(text, rule) ==
    LET e == OpenerEnd(text, rule)
    IN  /\ Delimited(text, rule)
        /\ FindFrom(text, ClosingMarker(text, rule), e) > e + WhitespaceRun(text, e)

\* Each field of a record follows from its own rule alone.
FieldsIndependent(text, rules, f) ==
    \A rule \in rules :
        /\ OpenerEnd(text, rule) = 0 => f[rule.field] = <<>>
        /\ (\A j \in 1..Len(rule.closers) :
                FindFrom(text, rule.closers[j], OpenerEnd(text, rule)) = 0)
              => f[rule.field] = <<>>
        /\ WellDelimited(text, rule) =>
              f[rule.field] = TextBetween(text, rule) /\ f[rule.field] # <<>>

LabelledValues(rs, label) ==
    UNION {{IF rs[r][i + 1] = None THEN <<>> ELSE Strip(rs[r][i + 1]) :
               i \in {j \in 1..(Len(rs[r]) - 1) :
                         /\ j % 2 = 1
                         /\ rs[r][j] # None
                         /\ Strip(RStripChars(Strip(rs[r][j]), {":"})) = label}} :
           r \in 1..Len(rs)}

\* C13 as stated: Issue ID is the first identifier token (ISSUE- and a run
\* of identifier characters) of the text in document order, whatever the
\* labels; "Issue ID ISSUE-123" gives ISSUE-123 without any key-value pair.
C13_IssueIDFromFirstToken ==
    /\ (ParsedPdf /\ FirstIdToken(PdfSearched) # None) =>
          f1["Issue ID"] = FirstIdToken(PdfSearched)
    /\ (ParsedDocx /\ FirstIdToken(DocxSearched) # None) =>
          f2["Issue ID"] = FirstIdToken(DocxSearched)

\* C13 amended: Issue ID comes from the key-value map alone: the value
\* paired with the label Issue ID in the tables of the PDF, with the label
\* Source System Issue Reference (and a value that is not empty) in those of
\* the DOCX; without such a pair it is "", whatever identifier token the
\* text holds.
C13_IssueIDFromLabelOnly ==
    /\ ParsedPdf =>
          LET vals == LabelledValues(PdfAllRows(pdf_file.pages), KeyIssueID)
          IN  IF vals = {} THEN f1["Issue ID"] = <<>> ELSE f1["Issue ID"] \in vals
    /\ ParsedDocx =>
          LET vals == LabelledValues(DocxAllRows(docx_file.tables),
                                     KeySourceSystemIssueReference) \ {<<>>}
          IN  IF vals = {} THEN f2["Issue ID"] = <<>> ELSE f2["Issue ID"] \in vals

\* A DOCX whose text holds "Issue ID ISSUE-123" and whose table pairs the
\* Issue ID label with an empty cell: Issue ID is "".
C13_Witness ==
    /\ ParsedDocx
    /\ FirstIdToken(DocxSearched) = IdPrefix \o <<"1", "2", "3">>
    /\ docx_file.tables # <<>>
    /\ f2["Title"] = TitleLoginBug
    /\ f2["Issue ID"] = <<>>

\* The span rule C14 speaks of: from the Title label to the label of the
\* next section, Issue ID.
TitleRule ==
    [field |-> "Title", opener |-> KeyTitle, minWs |-> 1, closers |-> <<KeyIssueID>>]

\* C14 as stated: when the key lookup finds no Title, the Title is the span
\* between the Title label and the next section's label in the text; it is
\* "" only when both tiers fail.
C14_TitleFallsBackToSpan ==
    /\ (/\ ParsedPdf
        /\ LabelledValues(PdfAllRows(pdf_file.pages), KeyTitle) = {}
        /\ WellDelimited(PdfSearched, TitleRule)) =>
          f1["Title"] = TextBetween(PdfSearched, TitleRule)
    /\ (/\ ParsedDocx
        /\ LabelledValues(DocxAllRows(docx_file.tables), KeyIssueTitle) = {}
        /\ WellDelimited(DocxSearched, TitleRule)) =>
          f2["Title"] = TextBetween(DocxSearched, TitleRule)

\* C14 amended: Title has one tier, the key lookup: the value paired with
\* the label Title in the tables of the PDF, with the label Issue Title (and
\* a value that is not empty) in those of the DOCX; without such a pair it
\* is "", whatever follows a Title label in the text.
C14_TitleFromLabelOnly ==
    /\ ParsedPdf =>
          LET vals == LabelledValues(PdfAllRows(pdf_file.pages), KeyTitle)
          IN  IF vals = {} THEN f1["Title"] = <<>> ELSE f1["Title"] \in vals
    /\ ParsedDocx =>
          LET vals == LabelledValues(DocxAllRows(docx_file.tables), KeyIssueTitle) \ {<<>>}
          IN  IF vals = {} THEN f2["Title"] = <<>> ELSE f2["Title"] \in vals

\* A PDF without tables whose text is "Title Foo Bar Issue ID ISSUE-123":
\* Title is "".
C14_Witness ==
    /\ ParsedPdf
    /\ PdfAllRows(pdf_file.pages) = <<>>
    /\ WellDelimited(PdfSearched, TitleRule)
    /\ TextBetween(PdfSearched, TitleRule) = <<"F", "o", "o", " ", "B", "a", "r">>
    /\ f1["Title"] = <<>>

\* The plain text of the one page of the PDF a parser was called on.
PageText == IF pdf_file.pages[1].text = None THEN <<>> ELSE pdf_file.pages[1].text

\* The first occurrence of a rule's opening marker is alone on its line; it
\* has other text before it on its line.
OpenerIsolated(text, rule) ==
    IsolatedAt(text, rule.opener, FindFrom(text, rule.opener, 1))

OpenerEmbedded(text, rule) ==
    LET p == FindFrom(text, rule.opener, 1)
    IN  p > 1 /\ text[p - 1] # "\n"

\* C15 as stated: before the span extraction a line that holds a label
\* phrase and nothing else is deleted from the text; a label phrase inside a
\* longer line stays and is not taken as a field's opening marker.
C15_FloatingLabelsRemoved ==
    ParsedPdf =>
        \A rule \in PdfRules :
            /\ \A p \in 1..Len(PdfSearched) : ~IsolatedAt(PdfSearched, rule.opener, p)
            /\ (\A p \in 1..Len(PageText) :
                    MatchAt(PageText, rule.opener, p) =>
                        ~IsolatedAt(PageText, rule.opener, p))
                  => f1[rule.field] = <<>>

\* C15 amended: no line is deleted before the span extraction, and a label
\* phrase followed by whitespace is the opening marker of its field whether
\* it stands alone on its line or inside a longer line.
C15_LabelsKeptAndOpenAnywhere ==
    ParsedPdf =>
        /\ PdfSearched = PageText
        /\ \A rule \in PdfRules :
              (/\ WellDelimited(PageText, rule)
               /\ OpenerIsolated(PageText, rule) \/ OpenerEmbedded(PageText, rule))
                  => f1[rule.field] = TextBetween(PageText, rule)

\* "My Description of the event" before the closing marker: Description is
\* "of the event".
C15_Witness ==
    /\ ParsedPdf
    /\ PageText = TextEmbeddedLabel
    /\ OpenerEmbedded(PageText, CHOOSE rule \in PdfRules : rule.field = "Description")
    /\ f1["Description"] = <<"o", "f", " ", "t", "h", "e", " ", "e", "v", "e", "n", "t">>

\* The Issue Impact rule of the DOCX parser.
DocxImpactRule == CHOOSE rule \in DocxRules : rule.field = "Issue Impact"

\* C18 as stated: the Issue Impact span of the DOCX parser ends at
\* "Background Context:" whenever that marker occurs after the opening
\* marker, at "Section C:" only when it does not, and the field stays ""
\* when neither occurs.
C18_ClosersTriedInOrder ==
    ParsedDocx =>
        LET text == DocxSearched
            e == OpenerEnd(text, DocxImpactRule)
            b == FindFrom(text, MarkBackgroundContextC, e)
            c == FindFrom(text, MarkSectionCC, e)
        IN  /\ (e # 0 /\ b # 0) => f2["Issue Impact"] = JoinSplit(SubSeq(text, e, b - 1))
            /\ (e # 0 /\ b = 0 /\ c # 0) =>
                  f2["Issue Impact"] = JoinSplit(SubSeq(text, e, c - 1))
            /\ (e = 0 \/ (b = 0 /\ c = 0)) => f2["Issue Impact"] = <<>>

SpanFields == {"Description", "Issue Impact", "Issue Root Cause"}

\* No whitespace at either end, no newline or tab, no two spaces in a row.
WhitespaceNormalized(v) ==
    /\ v # <<>> => (~IsSpace(v[1]) /\ ~IsSpace(v[Len(v)]))
    /\ \A i \in 1..Len(v) : v[i] \notin {"\n", "\t"}
    /\ \A i \in 1..(Len(v) - 1) : ~(v[i] = " " /\ v[i + 1] = " ")

\* C19: every value the span extraction produces, in both parsers, is
\* whitespace-normalized.
C19_SpansWhitespaceNormalized ==
    /\ ParsedPdf => \A k \in SpanFields : WhitespaceNormalized(f1[k])
    /\ ParsedDocx => \A k \in SpanFields : WhitespaceNormalized(f2[k])

\* A span with a newline before its words and a space and a tab between
\* them, extracted as "a b".
C19_Witness ==
    /\ ParsedDocx
    /\ DocxSearched =
          MarkIssueDescriptionC \o <<"\n">> \o SegText \o MarkIssueRootCauseC \o <<"\n">>
    /\ f2["Description"] = <<"a", " ", "b">>

-----------------------------------------------------------------------------
(* Properties of the email export                                           *)

Exported == zip_content # NotExported

\* The groups of the roster each have their EML file in the archive.
EveryGroupZipped ==
    \A i \in DOMAIN df_clean :
        \E j \in DOMAIN zip_content.files :
            zip_content.files[j].name =
                EmlName(GroupKey(df_clean[i],
                                 get_column_mapping(template_name))[1])

\* C20: for a roster with at least one row and any of the three configured
\* templates, export_emails_as_files fills the placeholders for every
\* employee group and returns the ZIP holding the generated EML files; it
\* returns None only when no EML file could be created, that is when the
\* loop ran to its end without an exception and collected no file.
C20_ExportReturnsZipOfEveryGroup ==
    (Exported /\ Len(df_clean) >= 1) =>
        /\ st_error = NoError
        /\ \/ zip_content.kind = "zip" /\ EveryGroupZipped
           \/ zip_content = ExportNone /\ created_files = <<>>

\* No name occurs twice in a list of file names.
NoDuplicateName(names) ==
    \A i, j \in DOMAIN names : names[i] = names[j] => i = j

\* C21: email generation produces exactly one EML file per employee group,
\* the groups being the distinct (employee id, employee name, email) triples
\* of the roster: as many files are collected as there are groups, no two
\* groups write the same file name, and the list of files packed into the
\* ZIP has no duplicate name.
C21_OneEmlFilePerGroup ==
    Exported =>
        /\ Len(created_files) =
               Len(Grouped(df_clean, get_column_mapping(template_name)))
        /\ Cardinality(DOMAIN temp_dir) = Len(created_files)
        /\ NoDuplicateName(created_files)
        /\ NoDuplicateName([i \in DOMAIN zip_content.files |->
                               zip_content.files[i].name])

-----------------------------------------------------------------------------
(* Properties of text_similarity                                            *)

Called == sim_out # NotCalled

\* C1 as stated: text_similarity(a, b) never raises and returns a defined
\* numeric score for every pair of strings.
C1_NeverRaises ==
    Called => ~sim_out.raised /\ sim_out.value \in 0..Permille

\* C2 as stated: text_similarity(a, a) is 1.0 for every non-empty string a.
C2_SelfSimilarityIsOne ==
    Called /\ sim_a = sim_b /\ sim_a # <<>>
    => ~sim_out.raised /\ sim_out.value = Permille

\* C3: text_similarity returns exactly 0.0 whenever at least one argument
\* is the empty string, both being empty included; the vectorizer is not
\* reached, so nothing is raised even when the other argument has no token.
C3_EmptyScoresZero ==
    Called /\ (sim_a = <<>> \/ sim_b = <<>>) => sim_out = Returned(0)

\* The call text_similarity("", "a") returned 0.0.
C3_Witness ==
    /\ sim_a = <<>>
    /\ sim_b = <<"a">>
    /\ sim_out = Returned(0)

====
